---- MODULE Spec2Model ----
(***************************************************************************)
(* Hadroid controller (hadroid/botctl.py): the stream listener, the cron   *)
(* loop and the one-shot dispatch of the bot controller.                   *)
(*                                                                         *)
(* Texts are sequences of one-character strings.  Time is counted in       *)
(* ticks, TicksPerSec ticks to the second, so that a time-until-due can    *)
(* have a sub-second part; the clock advances in sleeps only, a store      *)
(* query and a dispatch taking less than a tick.  The characters that a    *)
(* TLA+ string cannot hold conveniently are named: Backtick, SQuote,       *)
(* DQuote, Backslash.                                                      *)
(***************************************************************************)
EXTENDS Integers, Sequences, FiniteSets, TLC

(***************************************************************************)
(* Bounds of the model.                                                    *)
(***************************************************************************)
MaxLen == 2
MaxLines == 3
MaxBotSends == 1
TicksPerSec == 2
MaxPolls == 4
MaxEvents == 2

(***************************************************************************)
(* Python string operations used by the controller.                        *)
(***************************************************************************)
Backtick == "<backtick>"
SQuote == "<squote>"
DQuote == "<dquote>"
Backslash == "<backslash>"
Tab == "<tab>"
Newline == "<newline>"

Whitespace == {" ", Tab, Newline}

Chars(s) == {s[i] : i \in 1..Len(s)}

Drop(s, n) == SubSeq(s, n + 1, Len(s))

\* str.startswith(p)
StartsWith(text, p) ==
  /\ Len(p) <= Len(text)
  /\ SubSeq(text, 1, Len(p)) = p

\* str.lstrip(chars): drops leading characters while they are members of chars
RECURSIVE LStripChars(_, _)
LStripChars(s, chars) ==
  IF s # <<>> /\ Head(s) \in chars THEN LStripChars(Tail(s), chars) ELSE s

RECURSIVE RStripChars(_, _)
RStripChars(s, chars) ==
  IF s # <<>> /\ s[Len(s)] \in chars
  THEN RStripChars(SubSeq(s, 1, Len(s) - 1), chars)
  ELSE s

\* str.strip(): drops leading and trailing whitespace
Strip(s) == RStripChars(LStripChars(s, Whitespace), Whitespace)

\* Variant of ReplaceBackticks: every backtick becomes a double quote
RECURSIVE ReplaceEveryBacktick(_)
ReplaceEveryBacktick(s) ==
  IF s = <<>> THEN s
  ELSE <<IF s[1] = Backtick THEN DQuote ELSE s[1]>> \o ReplaceEveryBacktick(Tail(s))

\* str.replace of a pair of backticks by a double quote: non-overlapping
\* occurrences, left to right
RECURSIVE ReplaceBackticks(_)
ReplaceBackticks(s) ==
  IF Len(s) < 2 THEN s
  ELSE IF s[1] = Backtick /\ s[2] = Backtick
       THEN <<DQuote>> \o ReplaceBackticks(Drop(s, 2))
       ELSE <<s[1]>> \o ReplaceBackticks(Tail(s))

\* str.split(): the maximal runs of non-whitespace characters
RECURSIVE SplitScan(_, _, _)
SplitScan(s, token, acc) ==
  IF s = <<>> THEN (IF token = <<>> THEN acc ELSE Append(acc, token))
  ELSE IF Head(s) \in Whitespace
       THEN SplitScan(Tail(s), <<>>,
                      IF token = <<>> THEN acc ELSE Append(acc, token))
       ELSE SplitScan(Tail(s), Append(token, Head(s)), acc)

Split(s) == SplitScan(s, <<>>, <<>>)

(***************************************************************************)
(* shlex.split(s) (posix mode, whitespace_split, no comment characters).   *)
(* st is the lexer state: "ws" between tokens, "a" inside a word, a quote  *)
(* character inside a quoted part, Escape after an escape character; est is *)
(* the state the escape returns to.  The result is [ok, argv]; ok = FALSE  *)
(* is the ValueError of an unclosed quotation or a trailing escape.        *)
(***************************************************************************)
Quotes == {SQuote, DQuote}
Escape == Backslash
EscapedQuotes == {DQuote}

RECURSIVE ShlexScan(_, _, _, _, _, _)
ShlexScan(s, st, est, token, quoted, acc) ==
  LET emit == IF token # <<>> \/ quoted THEN Append(acc, token) ELSE acc
  IN
  IF s = <<>>
  THEN IF st \in Quotes \/ st = Escape
       THEN [ok |-> FALSE, argv |-> <<>>]
       ELSE [ok |-> TRUE, argv |-> emit]
  ELSE
    LET c == Head(s)
        r == Tail(s)
    IN
    CASE st = "ws" ->
           IF c \in Whitespace THEN ShlexScan(r, "ws", est, <<>>, FALSE, emit)
           ELSE IF c = Escape THEN ShlexScan(r, Escape, "a", token, quoted, acc)
           ELSE IF c \in Quotes THEN ShlexScan(r, c, est, token, quoted, acc)
           ELSE ShlexScan(r, "a", est, <<c>>, quoted, acc)
      [] st \in Quotes ->
           IF c = st THEN ShlexScan(r, "a", est, token, TRUE, acc)
           ELSE IF c = Escape /\ st \in EscapedQuotes
                THEN ShlexScan(r, Escape, st, token, TRUE, acc)
           ELSE ShlexScan(r, st, est, Append(token, c), TRUE, acc)
      [] st = Escape ->
           IF est \in Quotes /\ c # Escape /\ c # est
           THEN ShlexScan(r, est, est, token \o <<Escape, c>>, quoted, acc)
           ELSE ShlexScan(r, est, est, Append(token, c), quoted, acc)
      [] OTHER ->
           IF c \in Whitespace THEN ShlexScan(r, "ws", est, <<>>, FALSE, emit)
           ELSE IF c \in Quotes THEN ShlexScan(r, c, est, token, quoted, acc)
           ELSE IF c = Escape THEN ShlexScan(r, Escape, "a", token, quoted, acc)
           ELSE ShlexScan(r, "a", est, Append(token, c), quoted, acc)

ShlexSplit(s) == ShlexScan(s, "ws", "ws", <<>>, FALSE, <<>>)

(***************************************************************************)
(* Configuration (hadroid.C) and the inputs of the model.                  *)
(***************************************************************************)
BOT_NAME == "hadroid"

\* The recognized prefixes, in declared order: "!bot " and "!"
CMD_PREFIX == << <<"!", "b", "o", "t", " ">>, <<"!">> >>

Users == {BOT_NAME, "alice"}

Alphabet == {"b", " ", "x", DQuote, Backtick}

Bodies == UNION {[1..n -> Alphabet] : n \in 0..MaxLen}

\* Chat texts: a body alone, or a recognized prefix followed by a body
Texts == Bodies \cup {CMD_PREFIX[i] \o b : i \in 1..Len(CMD_PREFIX), b \in Bodies}

\* The lines the stream can yield: a blank or keep-alive line, bytes that do
\* not decode to JSON, JSON that is no chat message, and chat messages
Lines ==
  {[kind |-> k, user |-> "", text |-> <<>>] : k \in {"blank", "garbage", "nokeys"}}
  \cup {[kind |-> "event", user |-> u, text |-> t] : u \in Users, t \in Texts}

NoLine == [kind |-> "none", user |-> "", text |-> <<>>]

Modes == {"stream", "cron", "gitter", "stdout"}

\* The command vectors of the one-shot modes
OnceTokens == {<<"x">>, <<"b">>, <<"x", "b">>}
OnceArgvs == UNION {[1..n -> OnceTokens] : n \in 0..MaxLen}

\* The scheduled commands of the cron book, by position
CronCmds == << <<"x">>, <<"x", " ", "b">>, <<"b">>, <<" ", "x">> >>

\* Scheduled times, in seconds after the start of the loop, before the
\* sub-second part is added
SchedSecs == {5, 29, 30, 45}
SchedTimes == {s * TicksPerSec + f : s \in SchedSecs, f \in 0..(TicksPerSec - 1)}

VARIABLES
  mode,        \* the mode the controller was started in
  pc,          \* where the running mode stands
  lineNo,      \* stream: number of lines read so far
  cur,         \* stream: the line being processed
  resp,        \* the command handed to respond and its argument vector
  trace,       \* parser calls, entry-point calls, sends and reports of the
               \* line or poll cycle being processed, in order
  now,         \* cron: the clock, in ticks
  schedule,    \* cron: the events of the cron book
  next_event,  \* cron: what the store returned to the last poll
  polls,       \* cron: number of store queries made
  slept,       \* cron: seconds passed to the last sleep
  fired,       \* the lines (stream) or scheduled events (cron) handed to
               \* respond since the start, in order
  store,       \* cron: how long the cron book keeps returning an event
  tin,         \* tokenizers alone: the input they are applied to
  tout         \* tokenizers alone: what they returned

vars == <<mode, pc, lineNo, cur, resp, trace, now, schedule, next_event,
          polls, slept, fired, store, tin, tout>>

\* What no operation of the controller changes
fixedVars == <<mode, store, tin, tout>>

streamVars == <<lineNo, cur>>
cronVars == <<now, schedule, next_event, polls, slept>>

NoProbe == [op |-> "none"]

NoResp ==
  [called |-> FALSE, cmd |-> <<>>, ctx |-> "none", tokenized |-> FALSE,
   argv |-> <<>>]

(***************************************************************************)
(* The collaborators: the channel's send, the grammar parser's two         *)
(* outcomes and the bot entry point, which sends any number of messages    *)
(* and may fail.                                                           *)
(***************************************************************************)
FenceOpen == "<fence>text<newline>"
FenceClose == "<fence>"
UsageMessage == "usage"

Rec(k, src, what) == [k |-> k, src |-> src, what |-> what]

\* GitterClient.send(msg): with block = False the text posted is msg itself
send(src, msg) == Rec("send", src, msg)

ParseOutcomes == {"ok", "usage"}

\* docopt_parse(bot_doc, argv): returns the parsed arguments or raises
\* DocoptExit with the usage message
docopt_parse(src, outcome) == Rec("parse", src, <<outcome>>)

RECURSIVE BotSends(_, _)
BotSends(src, n) ==
  IF n = 0 THEN <<>> ELSE Append(BotSends(src, n - 1), send(src, <<"reply">>))

\* bot_main(client, args, msg_json): ctx tells whether msg_json is a chat event
bot_main(src, ctx, n) == <<Rec("entry", src, <<ctx>>)>> \o BotSends(src, n)

PrintExc(src) == Rec("print", src, <<>>)

\* bot_main raising an exception that is no DocoptExit
Raised(src, fails) == IF fails THEN <<Rec("raise", src, <<>>)>> ELSE <<>>

\* CronBook().get_next() raising an exception
StoreError(src) == Rec("store_error", src, <<>>)

(***************************************************************************)
(* StreamClient                                                            *)
(***************************************************************************)
\* Variant of IsSelf: the sender is compared with the capitalised name
IsSelfCaseMismatch(msg) == msg.user = "Hadroid"

\* parse_message: the sender test
IsSelf(msg) == msg.user = BOT_NAME

\* Variant of FirstPrefix: next() is given the first prefix as its default
FirstPrefixOrDefault(text) ==
  IF \E i \in 1..Len(CMD_PREFIX) : StartsWith(text, CMD_PREFIX[i])
  THEN CHOOSE i \in 1..Len(CMD_PREFIX) :
         /\ StartsWith(text, CMD_PREFIX[i])
         /\ \A j \in 1..(i - 1) : ~StartsWith(text, CMD_PREFIX[j])
  ELSE 1

\* Variant of FirstPrefix: a prefix counts only when text follows it
FirstPrefixStrict(text) ==
  IF \E i \in 1..Len(CMD_PREFIX) :
       StartsWith(text, CMD_PREFIX[i]) /\ Len(text) > Len(CMD_PREFIX[i])
  THEN CHOOSE i \in 1..Len(CMD_PREFIX) :
         /\ StartsWith(text, CMD_PREFIX[i]) /\ Len(text) > Len(CMD_PREFIX[i])
         /\ \A j \in 1..(i - 1) :
              ~(StartsWith(text, CMD_PREFIX[j]) /\ Len(text) > Len(CMD_PREFIX[j]))
  ELSE 0

\* parse_message: next(p for p in C.CMD_PREFIX if text.startswith(p)),
\* as the position of the prefix; 0 stands for StopIteration
FirstPrefix(text) ==
  IF \E i \in 1..Len(CMD_PREFIX) : StartsWith(text, CMD_PREFIX[i])
  THEN CHOOSE i \in 1..Len(CMD_PREFIX) :
         /\ StartsWith(text, CMD_PREFIX[i])
         /\ \A j \in 1..(i - 1) : ~StartsWith(text, CMD_PREFIX[j])
  ELSE 0

\* parse_message: text.lstrip(prefix).strip()
StripPrefix(text, prefix) == Strip(LStripChars(text, Chars(prefix)))

\* Variant of StreamTokenize: the command is tokenized as it stands
StreamTokenizeAsIs(cmd) == ShlexSplit(cmd)

\* respond: shlex.split(cmd.replace(backtick pair, double quote))
StreamTokenize(cmd) == ShlexSplit(ReplaceBackticks(cmd))

\* Variant of StreamRespondEffects: the entry point is called after the
\* handler, also when the parser rejected the command
StreamRespondEffectsAlsoEntry(src, ctx, outcome, n) ==
  <<docopt_parse(src, outcome)>> \o
    (IF outcome = "usage"
     THEN <<send(src, <<FenceOpen, UsageMessage, FenceClose>>)>>
     ELSE <<>>)
    \o bot_main(src, ctx, n)

\* respond, after tokenizing: what the parser's outcome leads to
StreamRespondEffects(src, ctx, outcome, n) ==
  <<docopt_parse(src, outcome)>> \o
    (IF outcome = "usage"
     THEN <<send(src, <<FenceOpen, UsageMessage, FenceClose>>)>>
     ELSE bot_main(src, ctx, n))

\* Variant of StreamAfterRespond: no handler around parse_message for a
\* failure of the entry point
StreamAfterRespondUncaught(tokenized, outcome, fails) ==
  IF fails THEN "crashed" ELSE "line_done"

\* listen: where the loop stands after respond; DocoptExit is caught by
\* respond and every other Exception by the handler around parse_message
StreamAfterRespond(tokenized, outcome, fails) == "line_done"

\* Variant of StreamReadLine: decoding and parsing are outside the handler
StreamReadLineNoHandler(line) ==
  /\ mode = "stream" /\ pc = "listen"
  /\ lineNo < MaxLines
  /\ lineNo' = lineNo + 1
  /\ cur' = line
  /\ resp' = NoResp
  /\ CASE line.kind = "blank" -> pc' = "line_done" /\ trace' = <<>>
       [] line.kind = "garbage" -> pc' = "crashed" /\ trace' = <<>>
       [] OTHER -> pc' = "parse_message" /\ trace' = <<>>
  /\ UNCHANGED <<fixedVars, cronVars, fired>>

\* listen: one line of the stream is read, decoded and parsed as JSON
StreamReadLine(line) ==
  /\ mode = "stream" /\ pc = "listen"
  /\ lineNo < MaxLines
  /\ lineNo' = lineNo + 1
  /\ cur' = line
  /\ resp' = NoResp
  /\ CASE line.kind = "blank" -> pc' = "line_done" /\ trace' = <<>>
       [] line.kind = "garbage" ->
            pc' = "line_done" /\ trace' = <<PrintExc(lineNo + 1)>>
       [] OTHER -> pc' = "parse_message" /\ trace' = <<>>
  /\ UNCHANGED <<fixedVars, cronVars, fired>>

\* listen: the body of the loop is over for this line; its locals are dead
StreamLineDone ==
  /\ mode = "stream" /\ pc = "line_done"
  /\ pc' = "listen"
  /\ cur' = NoLine
  /\ resp' = NoResp
  /\ trace' = <<>>
  /\ UNCHANGED <<fixedVars, lineNo, cronVars, fired>>

\* listen: the line iterator is exhausted
StreamEnd ==
  /\ mode = "stream" /\ pc = "listen"
  /\ pc' = "done"
  /\ UNCHANGED <<fixedVars, streamVars, resp, trace, cronVars, fired>>

\* Variant of StreamParseMessage: respond is called for every prefix the
\* text starts with, not for the first one only
StreamParseMessageEachPrefix ==
  /\ mode = "stream" /\ pc = "parse_message"
  /\ IF cur.kind = "nokeys"
     THEN /\ pc' = "line_done"
          /\ trace' = Append(trace, PrintExc(lineNo))
          /\ UNCHANGED <<resp, fired>>
     ELSE IF IsSelf(cur) \/ FirstPrefix(cur.text) = 0
     THEN /\ pc' = "line_done"
          /\ UNCHANGED <<trace, resp, fired>>
     ELSE /\ pc' = "respond"
          /\ fired' = fired \o
               [i \in 1..Cardinality({j \in 1..Len(CMD_PREFIX) :
                                        StartsWith(cur.text, CMD_PREFIX[j])})
                  |-> [line |-> lineNo, user |-> cur.user]]
          /\ resp' = [NoResp EXCEPT
                        !.called = TRUE,
                        !.ctx = "event",
                        !.cmd = StripPrefix(cur.text,
                                            CMD_PREFIX[FirstPrefix(cur.text)])]
          /\ trace' = trace
  /\ UNCHANGED <<fixedVars, streamVars, cronVars>>

StreamParseMessage ==
  /\ mode = "stream" /\ pc = "parse_message"
  /\ IF cur.kind = "nokeys"
     THEN \* KeyError, caught by listen
          /\ pc' = "line_done"
          /\ trace' = Append(trace, PrintExc(lineNo))
          /\ UNCHANGED <<resp, fired>>
     ELSE IF IsSelf(cur) \/ FirstPrefix(cur.text) = 0
     THEN /\ pc' = "line_done"
          /\ UNCHANGED <<trace, resp, fired>>
     ELSE /\ pc' = "respond"
          /\ fired' = Append(fired, [line |-> lineNo, user |-> cur.user])
          /\ resp' = [NoResp EXCEPT
                        !.called = TRUE,
                        !.ctx = "event",
                        !.cmd = StripPrefix(cur.text,
                                            CMD_PREFIX[FirstPrefix(cur.text)])]
          /\ trace' = trace
  /\ UNCHANGED <<fixedVars, streamVars, cronVars>>

StreamRespond ==
  /\ mode = "stream" /\ pc = "respond"
  /\ LET tok == StreamTokenize(resp.cmd) IN
     IF ~tok.ok
     THEN \* ValueError of shlex, caught by listen
          /\ trace' = Append(trace, PrintExc(lineNo))
          /\ resp' = resp
          /\ pc' = StreamAfterRespond(FALSE, "none", FALSE)
     ELSE /\ resp' = [resp EXCEPT !.tokenized = TRUE, !.argv = tok.argv]
          /\ \E outcome \in ParseOutcomes, n \in 0..MaxBotSends, fails \in BOOLEAN :
               /\ outcome = "usage" => (n = 0 /\ ~fails)
               /\ trace' = trace \o StreamRespondEffects(lineNo, resp.ctx, outcome, n)
                             \o Raised(lineNo, fails)
                             \o (IF fails THEN <<PrintExc(lineNo)>> ELSE <<>>)
               /\ pc' = StreamAfterRespond(TRUE, outcome, fails)
  /\ UNCHANGED <<fixedVars, streamVars, cronVars, fired>>

(***************************************************************************)
(* CronClient                                                              *)
(***************************************************************************)
NearTermSeconds == 30
CoarseSleepSeconds == 20
SecondsPerDay == 86400

NoEvent == [idx |-> 0, dt |-> 0, time |-> 0, cmd |-> <<>>]

\* CronBook().get_next(): the earliest event whose scheduled time has not been
\* reached (the lower index first among equals), with its time until due
get_next(sched, t) ==
  LET future == {i \in 1..Len(sched) : sched[i].time > t} IN
  IF future = {} THEN NoEvent
  ELSE LET i == CHOOSE a \in future :
                  \A b \in future :
                    \/ sched[a].time < sched[b].time
                    \/ (sched[a].time = sched[b].time /\ a <= b)
       IN [idx |-> i, dt |-> sched[i].time - t, time |-> sched[i].time,
           cmd |-> sched[i].cmd]

\* A cron book that keeps returning an event until it has been dispatched:
\* the earliest event not in done, with its time until due, which is zero
\* or negative once the scheduled time is reached
get_next_unfired(sched, t, done) ==
  LET left == {i \in 1..Len(sched) : i \notin done} IN
  IF left = {} THEN NoEvent
  ELSE LET i == CHOOSE a \in left :
                  \A b \in left :
                    \/ sched[a].time < sched[b].time
                    \/ (sched[a].time = sched[b].time /\ a <= b)
       IN [idx |-> i, dt |-> sched[i].time - t, time |-> sched[i].time,
           cmd |-> sched[i].cmd]

Stores == {"until_due", "until_fired"}

\* cb.get_next() of the cron book in use
StoreQuery(kind, sched, t, dispatched) ==
  IF kind = "until_due"
  THEN get_next(sched, t)
  ELSE get_next_unfired(sched, t,
                        {dispatched[i].idx : i \in 1..Len(dispatched)})

\* Variant of NearTerm: the threshold itself counts as near
NearTermInclusive(ev) == ev.idx # 0 /\ ev.dt <= NearTermSeconds * TicksPerSec

\* listen: next_event is not None and next_event[0] < timedelta(seconds=30)
NearTerm(ev) == ev.idx # 0 /\ ev.dt < NearTermSeconds * TicksPerSec

\* listen: ce.dt.seconds, the seconds field of the normalised timedelta
\* (days, seconds, microseconds)
TimedeltaSeconds(dt) == (dt \div TicksPerSec) % SecondsPerDay

\* respond: cmd.split()
CronTokenize(cmd) == Split(cmd)

\* respond, after tokenizing: what the parser's outcome leads to
CronRespondEffects(src, ctx, outcome, n) ==
  <<docopt_parse(src, outcome)>> \o
    (IF outcome = "usage"
     THEN <<send(src, <<FenceOpen, UsageMessage, FenceClose>>)>>
     ELSE bot_main(src, ctx, n))

\* Variant of CronAfterRespond: the handler of respond does not catch
\* DocoptExit
CronAfterRespondUncaught(outcome, fails) ==
  IF fails \/ outcome = "usage" THEN "crashed" ELSE "poll"

\* listen: where the loop stands after respond; respond catches DocoptExit
\* and nothing catches a failure of the entry point
CronAfterRespond(outcome, fails) == IF fails THEN "crashed" ELSE "poll"

\* Variant of CronAfterStoreError: a handler treats the failed query as
\* "no event"
CronAfterStoreErrorSwallowed == "sleep_coarse"

\* listen: where the loop stands after cb.get_next() raised; no handler
CronAfterStoreError == "crashed"

\* listen: cb.get_next() and the test on what it returned
CronPoll ==
  /\ mode = "cron" /\ pc = "poll"
  /\ polls < MaxPolls
  /\ polls' = polls + 1
  /\ resp' = NoResp
  /\ \/ \* the store query fails: nothing catches it
        /\ pc' = CronAfterStoreError
        /\ next_event' = NoEvent
        /\ trace' = <<StoreError(polls + 1)>>
     \/ /\ next_event' = StoreQuery(store, schedule, now, fired)
        /\ pc' = IF NearTerm(next_event') THEN "sleep_due" ELSE "sleep_coarse"
        /\ trace' = <<>>
  /\ UNCHANGED <<fixedVars, streamVars, now, schedule, slept, fired>>

\* listen: sleep(ce.dt.seconds)
CronSleepDue ==
  /\ mode = "cron" /\ pc = "sleep_due"
  /\ slept' = TimedeltaSeconds(next_event.dt)
  /\ now' = now + slept' * TicksPerSec
  /\ pc' = "respond"
  /\ UNCHANGED <<fixedVars, streamVars, resp, trace, schedule, next_event, polls, fired>>

\* listen: self.respond(ce.cmd, {}); a dispatch takes less than a tick
CronRespond ==
  /\ mode = "cron" /\ pc = "respond"
  /\ resp' = [called |-> TRUE, cmd |-> next_event.cmd, ctx |-> "none",
              tokenized |-> TRUE, argv |-> CronTokenize(next_event.cmd)]
  /\ fired' = Append(fired, [idx |-> next_event.idx, time |-> next_event.time,
                             dt |-> next_event.dt, poll |-> polls, at |-> now])
  /\ \E outcome \in ParseOutcomes, n \in 0..MaxBotSends, fails \in BOOLEAN :
       /\ outcome = "usage" => (n = 0 /\ ~fails)
       /\ trace' = trace \o CronRespondEffects(polls, resp'.ctx, outcome, n)
                     \o Raised(polls, fails)
       /\ pc' = CronAfterRespond(outcome, fails)
  /\ UNCHANGED <<fixedVars, streamVars, now, schedule, next_event, polls, slept>>

\* listen: sleep(20)
CronSleepCoarse ==
  /\ mode = "cron" /\ pc = "sleep_coarse"
  /\ slept' = CoarseSleepSeconds
  /\ now' = now + slept' * TicksPerSec
  /\ pc' = "poll"
  /\ UNCHANGED <<fixedVars, streamVars, resp, trace, schedule, next_event, polls, fired>>

(***************************************************************************)
(* The one-shot modes of __main__: 'gitter' and 'stdout'                   *)
(***************************************************************************)
\* Variant of OnceEffects: a handler turns DocoptExit into a fenced reply
OnceEffectsCaught(outcome, n) ==
  <<docopt_parse(0, outcome)>> \o
    (IF outcome = "usage"
     THEN <<send(0, <<FenceOpen, UsageMessage, FenceClose>>)>>
     ELSE bot_main(0, "none", n))

\* docopt_parse(bot_doc, args['<cmd>']) and bot_main(client, bot_args), with
\* no handler around them
OnceEffects(outcome, n) ==
  <<docopt_parse(0, outcome)>> \o (IF outcome = "usage" THEN <<>> ELSE bot_main(0, "none", n))

OnceExit(outcome, fails) ==
  IF outcome = "usage" THEN "exit_usage" ELSE IF fails THEN "crashed" ELSE "done"

OnceDispatch ==
  /\ mode \in {"gitter", "stdout"} /\ pc = "main"
  /\ \E outcome \in ParseOutcomes, n \in 0..MaxBotSends, fails \in BOOLEAN :
       /\ outcome = "usage" => (n = 0 /\ ~fails)
       /\ trace' = trace \o OnceEffects(outcome, n) \o Raised(0, fails)
       /\ pc' = OnceExit(outcome, fails)
  /\ resp' = [resp EXCEPT !.called = TRUE]
  /\ UNCHANGED <<fixedVars, streamVars, cronVars, fired>>

(***************************************************************************)
(* The controller                                                          *)
(***************************************************************************)
Schedules ==
  UNION {{[i \in 1..n |-> [time |-> f[i], cmd |-> CronCmds[i]]] :
            f \in [1..n -> SchedTimes]} : n \in 0..MaxEvents}

Init ==
  /\ mode \in Modes
  /\ pc = CASE mode = "stream" -> "listen"
            [] mode = "cron" -> "poll"
            [] OTHER -> "main"
  /\ lineNo = 0
  /\ cur = NoLine
  /\ resp \in IF mode \in {"gitter", "stdout"}
              THEN {[NoResp EXCEPT !.tokenized = TRUE, !.argv = a] : a \in OnceArgvs}
              ELSE {NoResp}
  /\ trace = <<>>
  /\ now = 0
  /\ schedule \in IF mode = "cron" THEN Schedules ELSE {<<>>}
  /\ next_event = NoEvent
  /\ polls = 0
  /\ slept = 0
  /\ fired = <<>>
  /\ store = "until_due"
  /\ tin = NoProbe
  /\ tout = NoProbe

Next ==
  \/ \E line \in Lines : StreamReadLine(line)
  \/ StreamParseMessage
  \/ StreamRespond
  \/ StreamLineDone
  \/ StreamEnd
  \/ CronPoll
  \/ CronSleepDue
  \/ CronRespond
  \/ CronSleepCoarse
  \/ OnceDispatch

Spec == Init /\ [][Next]_vars

(***************************************************************************)
(* The tokenizers of the two respond methods, applied to given texts.      *)
(* tin is the text (or what it is built from) and tout what the tokenizers *)
(* return for it.                                                          *)
(***************************************************************************)
MaxTokLen == 2
MaxArgs == 2
MaxCmdLen == 5

\* ' '.join(argv)
RECURSIVE Join(_)
Join(argv) ==
  IF argv = <<>> THEN <<>>
  ELSE IF Len(argv) = 1 THEN argv[1]
  ELSE argv[1] \o <<" ">> \o Join(Tail(argv))

\* Tokens without whitespace and without quote characters
TokenAlphabet == {"x", Backtick, Backslash}
Tokens == UNION {[1..n -> TokenAlphabet] : n \in 1..MaxTokLen}
Argvs == UNION {[1..n -> Tokens] : n \in 0..MaxArgs}

\* Phrases, and the texts before and after the enclosed phrase
PhraseAlphabet == {"x", " ", DQuote, Backtick, Backslash}
Phrases == UNION {[1..n -> PhraseAlphabet] : n \in 0..MaxLen}
Befores == {<<>>, <<"x", " ">>, <<"x">>, <<Backtick>>, <<"x", " ", Backtick>>,
            <<DQuote>>, <<Backslash>>}
Afters == {<<>>, <<" ", "x">>, <<"x">>, <<Backtick>>, <<DQuote>>, <<Backslash>>}
Enclose(before, q, phrase, after) == before \o q \o phrase \o q \o after

\* Command texts
CmdAlphabet == {"x", " ", DQuote, SQuote, Backtick}
Cmds == UNION {[1..n -> CmdAlphabet] : n \in 0..MaxCmdLen}

TokenizerInputs ==
  {[op |-> "argv", argv |-> v] : v \in Argvs}
  \cup {[op |-> "phrase", before |-> b, phrase |-> p, after |-> a] :
          b \in Befores, p \in Phrases, a \in Afters}
  \cup {[op |-> "text", text |-> t] : t \in Cmds}

InitTokenize ==
  /\ mode = "tokenize" /\ pc = "main"
  /\ lineNo = 0 /\ cur = NoLine /\ resp = NoResp /\ trace = <<>>
  /\ now = 0 /\ schedule = <<>> /\ next_event = NoEvent
  /\ polls = 0 /\ slept = 0 /\ fired = <<>>
  /\ store = "until_due"
  /\ tin \in TokenizerInputs
  /\ tout = NoProbe

\* StreamClient.respond on the tokens of an argument vector joined by spaces
TokenizeJoined ==
  /\ mode = "tokenize" /\ tin.op = "argv" /\ tout = NoProbe
  /\ tout' = [op |-> "argv", r |-> StreamTokenize(Join(tin.argv))]
  /\ UNCHANGED <<mode, store, tin, streamVars, cronVars, pc, resp, trace, fired>>

\* StreamClient.respond on a phrase between two backtick pairs and on the
\* same phrase between double quotes
TokenizeEnclosed ==
  /\ mode = "tokenize" /\ tin.op = "phrase" /\ tout = NoProbe
  /\ tout' = [op |-> "phrase",
              bt |-> StreamTokenize(Enclose(tin.before, <<Backtick, Backtick>>,
                                            tin.phrase, tin.after)),
              dq |-> StreamTokenize(Enclose(tin.before, <<DQuote>>,
                                            tin.phrase, tin.after))]
  /\ UNCHANGED <<mode, store, tin, streamVars, cronVars, pc, resp, trace, fired>>

\* StreamClient.respond and CronClient.respond on the same command text
TokenizeBoth ==
  /\ mode = "tokenize" /\ tin.op = "text" /\ tout = NoProbe
  /\ tout' = [op |-> "text",
              stream |-> StreamTokenize(tin.text),
              cron |-> [ok |-> TRUE, argv |-> CronTokenize(tin.text)]]
  /\ UNCHANGED <<mode, store, tin, streamVars, cronVars, pc, resp, trace, fired>>

NextTokenize == TokenizeJoined \/ TokenizeEnclosed \/ TokenizeBoth

SpecTokenize == InitTokenize /\ [][NextTokenize]_vars

(***************************************************************************)
(* The cron loop over a cron book that keeps returning an event until it   *)
(* has been dispatched, first with every event ahead of the start of the   *)
(* loop, then with events already overdue at the start.                    *)
(***************************************************************************)
NextCron == CronPoll \/ CronSleepDue \/ CronRespond \/ CronSleepCoarse

CronIdle ==
  /\ mode = "cron" /\ pc = "poll"
  /\ lineNo = 0 /\ cur = NoLine /\ resp = NoResp /\ trace = <<>>
  /\ now = 0 /\ next_event = NoEvent
  /\ polls = 0 /\ slept = 0 /\ fired = <<>>
  /\ tin = NoProbe /\ tout = NoProbe

InitUntilFired ==
  /\ CronIdle
  /\ store = "until_fired"
  /\ schedule \in Schedules

\* The loop runs on for as long as it has a step to take
SpecUntilFired == InitUntilFired /\ [][NextCron]_vars /\ WF_vars(NextCron)

\* Scheduled times at or before the start of the loop, in seconds before
\* the sub-second part is added, and one time ahead of it
OverdueSecs == {-30, -1, 0}
OverdueTimes ==
  {s * TicksPerSec + f : s \in OverdueSecs \cup {5}, f \in 0..(TicksPerSec - 1)}
OverdueSchedules ==
  UNION {{[i \in 1..n |-> [time |-> f[i], cmd |-> CronCmds[i]]] :
            f \in [1..n -> OverdueTimes]} : n \in 0..MaxEvents}

InitOverdue ==
  /\ CronIdle
  /\ store = "until_fired"
  /\ schedule \in OverdueSchedules

SpecOverdue == InitOverdue /\ [][NextCron]_vars /\ WF_vars(NextCron)

(***************************************************************************)
(* Properties                                                              *)
(***************************************************************************)
HasPrefix(text) == \E i \in 1..Len(CMD_PREFIX) : StartsWith(text, CMD_PREFIX[i])

\* The least position of a prefix the text starts with
MatchedPrefix(text) ==
  CMD_PREFIX[CHOOSE i \in 1..Len(CMD_PREFIX) :
               /\ StartsWith(text, CMD_PREFIX[i])
               /\ \A j \in 1..Len(CMD_PREFIX) :
                    StartsWith(text, CMD_PREFIX[j]) => i <= j]

Kinds(k) == {i \in 1..Len(trace) : trace[i].k = k}

UsageRejected ==
  \E i \in Kinds("parse") : trace[i].what = <<"usage">>

UsageReply == <<FenceOpen, UsageMessage, FenceClose>>

InStream == mode = "stream"
InCron == mode = "cron"
InOnce == mode \in {"gitter", "stdout"}

\* C1: the command handed to respond is the text after the characters of the
\* first matching prefix, trimmed of surrounding whitespace, and nothing more
\* is removed
C1_ExactPrefixStripped ==
  (InStream /\ resp.called /\ cur.kind = "event")
    => resp.cmd = Strip(Drop(cur.text, Len(MatchedPrefix(cur.text))))

\* C2: a chat event whose text starts with no recognized prefix causes no
\* parser call, no entry-point call and no send, and the listener is left at
\* the end of the line, ready for the next one
C2_NoPrefixNoDispatch ==
  (InStream /\ cur.kind = "event" /\ ~HasPrefix(cur.text))
    => /\ pc \in {"parse_message", "line_done"}
       /\ ~resp.called
       /\ trace = <<>>
       /\ \A i \in 1..Len(fired) : fired[i].line # lineNo

C2_Witness ==
  /\ InStream /\ pc = "line_done"
  /\ cur.kind = "event" /\ cur.user # BOT_NAME
  /\ cur.text # <<>> /\ ~HasPrefix(cur.text)

\* C3: an event sent by the bot itself is never handed to respond, whatever
\* its text: no dispatch of the whole run has the bot as its sender, and the
\* line of such an event produces no parser call, entry-point call or send
C3_SelfNeverDispatched ==
  InStream
    => /\ \A i \in 1..Len(fired) : fired[i].user # BOT_NAME
       /\ (cur.kind = "event" /\ cur.user = BOT_NAME)
            => (~resp.called /\ trace = <<>> /\ pc # "respond")

C3_Witness ==
  /\ InStream /\ pc = "line_done"
  /\ cur.kind = "event" /\ cur.user = BOT_NAME
  /\ HasPrefix(cur.text) /\ Len(cur.text) > Len(MatchedPrefix(cur.text))

\* C4: when the grammar parser rejects a command in the stream listener or
\* in the cron loop, the dispatch consists of the parser call and exactly one
\* send, of the usage message inside a fenced block; the entry point is not
\* called
C4_UsageErrorOneFencedReply ==
  ((InStream \/ InCron) /\ UsageRejected)
    => /\ Len(trace) = 2
       /\ trace[1].k = "parse"
       /\ trace[2].k = "send" /\ trace[2].what = UsageReply
       /\ Kinds("entry") = {}

C4_Witness ==
  /\ InStream /\ pc = "line_done" /\ UsageRejected
  /\ Cardinality(Kinds("send")) = 1

\* C5: when the store returns an event less than 30 seconds from due, the
\* loop sleeps exactly the time until due and then dispatches that event's
\* command once, with no chat event as context
C5_NearTermSleepsExactly ==
  (InCron /\ pc \in {"respond", "poll", "crashed"} /\ next_event.idx # 0
     /\ next_event.dt < NearTermSeconds * TicksPerSec)
    => /\ slept * TicksPerSec = next_event.dt
       /\ pc # "respond"
            => /\ resp.called /\ resp.cmd = next_event.cmd /\ resp.ctx = "none"
               /\ Cardinality(Kinds("parse")) = 1

\* C6: when the store returns no event or an event 30 seconds or more from
\* due, the iteration dispatches and sends nothing, sleeps 20 seconds and
\* returns to the poll; every event fired was less than 30 seconds from due
\* at the poll of its own iteration
C6_FarOrNoneCoarsePoll ==
  InCron
    => /\ (polls > 0 /\ pc # "crashed"
             /\ (next_event.idx = 0
                   \/ next_event.dt >= NearTermSeconds * TicksPerSec))
          => /\ pc \in {"sleep_coarse", "poll"}
             /\ ~resp.called /\ trace = <<>>
             /\ \A i \in 1..Len(fired) : fired[i].poll # polls
             /\ pc = "poll"
                  => /\ slept = CoarseSleepSeconds
                     /\ next_event.idx # 0 =>
                          now = next_event.time - next_event.dt
                                  + CoarseSleepSeconds * TicksPerSec
       /\ \A i \in 1..Len(fired) :
            fired[i].dt < NearTermSeconds * TicksPerSec

C6_Witness ==
  /\ InCron
  /\ \E i \in 1..Len(fired) :
       /\ fired[i].time >= NearTermSeconds * TicksPerSec
       /\ fired[i].poll > 1

\* C7: no scheduled event, identified by its scheduled time and index, is
\* dispatched twice
C7_NoDoubleFire ==
  InCron
    => \A i, j \in 1..Len(fired) :
         (i < j) => ~(fired[i].idx = fired[j].idx /\ fired[i].time = fired[j].time)

\* C8: the lines handed to respond are in arrival order, each at most once,
\* none of them ahead of the line being read, and every parser call,
\* entry-point call and send belongs to the line being processed; between
\* two lines nothing is pending
C8_StreamInOrder ==
  InStream
    => /\ \A i, j \in 1..Len(fired) : (i < j) => fired[i].line < fired[j].line
       /\ \A i \in 1..Len(fired) : fired[i].line \in 1..lineNo
       /\ \A i \in 1..Len(trace) : trace[i].src = lineNo
       /\ resp.called => (fired # <<>> /\ fired[Len(fired)].line = lineNo)
       /\ pc \in {"listen", "done"} => (trace = <<>> /\ ~resp.called)

C8_Witness ==
  /\ InStream /\ pc = "line_done"
  /\ Len(fired) = 2 /\ lineNo > 2
  /\ Kinds("send") # {}

\* C9: a command the parser rejects, or a chat command that cannot be
\* tokenized, leaves the stream listener at the end of the line and the cron
\* loop at its next poll: neither loop is terminated by it
C9_MalformedInputKeepsLoop ==
  /\ (InStream /\ resp.called /\ pc # "respond"
        /\ (UsageRejected \/ ~resp.tokenized))
       => pc = "line_done"
  /\ (InCron /\ resp.called /\ UsageRejected) => pc = "poll"
  /\ InStream => pc # "crashed"

C9_Witness ==
  /\ InStream /\ pc = "line_done"
  /\ resp.called /\ ~resp.tokenized /\ Kinds("print") # {}

\* C10 as claimed: on the one-shot path a usage error becomes a single
\* fenced reply and the dispatch returns normally
C10_OnceUsageReplied ==
  (InOnce /\ UsageRejected)
    => /\ Cardinality(Kinds("send")) = 1
       /\ \A i \in Kinds("send") : trace[i].what = UsageReply
       /\ pc = "done"

\* C10, amended: on the one-shot path a usage error is not caught; it ends
\* the process, nothing is sent through the channel and the entry point is
\* not called
C10_OnceUsagePropagates ==
  (InOnce /\ UsageRejected)
    => /\ pc = "exit_usage"
       /\ Kinds("send") = {}
       /\ Kinds("entry") = {}

C10_Witness ==
  /\ InOnce /\ pc = "exit_usage" /\ UsageRejected /\ resp.argv # <<>>

\* C11 as claimed: a failure of the entry point that is no usage error ends
\* the stream listener and the cron loop alike, and nothing is sent about it
C11_EntryFailureTerminates ==
  ((InStream \/ InCron) /\ Kinds("raise") # {})
    => /\ pc = "crashed"
       /\ \A i \in Kinds("send") : trace[i].what # UsageReply

\* C11, amended: in the cron loop a failure of the entry point ends the loop,
\* after which no step is taken; in the stream listener the handler around
\* the line catches it, it is reported locally and the listener stands at
\* the end of the line; in neither mode is a message sent about it
C11_EntryFailureEndsCronOnly ==
  /\ (InCron /\ Kinds("raise") # {})
       => /\ pc = "crashed"
          /\ trace[Len(trace)].k = "raise"
          /\ \A i \in Kinds("send") : trace[i].what # UsageReply
          /\ ~ENABLED Next
  /\ (InStream /\ Kinds("raise") # {})
       => /\ pc = "line_done"
          /\ trace[Len(trace)].k = "print"
          /\ trace[Len(trace) - 1].k = "raise"
          /\ \A i \in Kinds("send") : trace[i].what # UsageReply

C11_Witness ==
  /\ InStream /\ pc = "line_done" /\ lineNo < MaxLines
  /\ Kinds("raise") # {} /\ Kinds("send") # {}

BadLine == cur.kind \in {"garbage", "nokeys"}

\* C12: a line that does not decode or parse as a chat event causes no
\* dispatch and no send and is reported locally; the listener then returns
\* to the stream with nothing left of the line, the dispatches made so far
\* unchanged
C12_BadLineSkipped ==
  /\ [](  (InStream /\ BadLine)
            => /\ pc \in {"parse_message", "line_done"}
               /\ ~resp.called
               /\ Kinds("parse") \cup Kinds("entry") \cup Kinds("send") = {}
               /\ \A i \in 1..Len(fired) : fired[i].line # lineNo
               /\ pc = "line_done" => trace = <<PrintExc(lineNo)>>)
  /\ [][(InStream /\ BadLine /\ pc = "line_done")
          => /\ pc' = "listen" /\ cur' = NoLine /\ resp' = NoResp
             /\ trace' = <<>> /\ fired' = fired /\ lineNo' = lineNo]_vars

C12_Witness ==
  /\ InStream /\ pc = "line_done" /\ cur.kind = "garbage"
  /\ lineNo = 2 /\ Len(fired) = 1

\* C18: a failed store query ends the cron loop in that iteration: nothing is
\* dispatched or sent in it and no step follows
C18_StoreFailureEndsLoop ==
  (InCron /\ Kinds("store_error") # {})
    => /\ pc = "crashed"
       /\ trace = <<StoreError(polls)>>
       /\ ~resp.called
       /\ \A i \in 1..Len(fired) : fired[i].poll # polls
       /\ ~ENABLED Next

C18_Witness ==
  /\ InCron /\ pc = "crashed" /\ Kinds("store_error") # {}
  /\ polls > 1 /\ fired # <<>>

\* C16: with a cron book that reports an event until it is fired, every
\* dispatch of an event is made not before the event's scheduled time and at
\* most one coarse-poll interval after it
C16_DispatchedOnTime ==
  InCron
    => \A i \in 1..Len(fired) :
         /\ fired[i].at >= fired[i].time
         /\ fired[i].at <= fired[i].time + CoarseSleepSeconds * TicksPerSec

\* The current line is a chat event of another user whose text is a
\* recognized prefix and nothing else
PrefixOnly ==
  /\ cur.kind = "event" /\ ~IsSelf(cur)
  /\ HasPrefix(cur.text) /\ cur.text = MatchedPrefix(cur.text)

\* C17: a text that is a recognized prefix and nothing else is dispatched
\* with an empty command: it is tokenized to the empty argument vector, the
\* parser is called exactly once, and its outcome is carried out, a usage
\* error as the fenced reply and an acceptance as the entry-point call
C17_EmptyRemainderDispatched ==
  (InStream /\ PrefixOnly /\ pc \in {"respond", "line_done"})
    => /\ resp.called /\ resp.cmd = <<>>
       /\ \E i \in 1..Len(fired) : fired[i].line = lineNo
       /\ pc = "line_done"
            => /\ resp.tokenized /\ resp.argv = <<>>
               /\ Cardinality(Kinds("parse")) = 1
               /\ trace[1].k = "parse"
               /\ IF UsageRejected
                  THEN trace = <<docopt_parse(lineNo, "usage"),
                                 send(lineNo, UsageReply)>>
                  ELSE /\ trace[2] = Rec("entry", lineNo, <<"event">>)
                       /\ Cardinality(Kinds("entry")) = 1

C17_Witness ==
  /\ InStream /\ PrefixOnly /\ pc = "line_done"
  /\ cur.text = CMD_PREFIX[1]
  /\ Kinds("entry") # {}

\* C13 as claimed: every vector of non-empty tokens without whitespace and
\* quote characters, joined by single spaces, is tokenized by the stream
\* dispatcher to the vector itself
C13_RoundTrip ==
  (tin.op = "argv" /\ tout # NoProbe)
    => tout.r = [ok |-> TRUE, argv |-> tin.argv]

\* A token the tokenizer leaves as it is: no escape character and no two
\* adjacent backticks
PlainToken(t) ==
  /\ \A i \in 1..Len(t) : t[i] # Backslash
  /\ \A i \in 1..(Len(t) - 1) : ~(t[i] = Backtick /\ t[i + 1] = Backtick)

\* C13, amended: the round trip holds for the vectors whose tokens hold, in
\* addition, no backslash and no two adjacent backticks
C13_RoundTripPlain ==
  (/\ tin.op = "argv" /\ tout # NoProbe
   /\ \A i \in 1..Len(tin.argv) : PlainToken(tin.argv[i]))
    => tout.r = [ok |-> TRUE, argv |-> tin.argv]

C13_Witness ==
  /\ tin.op = "argv" /\ tout # NoProbe
  /\ tin.argv = << <<"x", Backtick>>, <<Backtick>> >>
  /\ tout.r.ok /\ Len(tout.r.argv) = 2

Enclosed == tin.op = "phrase" /\ tout # NoProbe

EndsWithBacktick(s) == s # <<>> /\ s[Len(s)] = Backtick

\* A text without backtick, double quote and backslash
PlainText(s) ==
  \A i \in 1..Len(s) : s[i] \notin {Backtick, DQuote, Backslash}

\* The enclosed phrase stands apart from plain words before and after it
SetApart(before, after) ==
  /\ PlainText(before) /\ (before = <<>> \/ before[Len(before)] = " ")
  /\ PlainText(after) /\ (after = <<>> \/ after[1] = " ")

\* C14 as claimed: for every phrase and every text around it, the phrase
\* between two backtick pairs is tokenized as the phrase between double
\* quotes is, and where it stands apart from the words around it, it is one
\* argument
C14_BacktickPairsAsQuotes ==
  Enclosed
    => /\ tout.bt = tout.dq
       /\ SetApart(tin.before, tin.after)
            => tout.bt = [ok |-> TRUE,
                          argv |-> Split(tin.before) \o <<tin.phrase>>
                                     \o Split(tin.after)]

\* C14, amended: the two tokenizations agree when neither the text before
\* the opening pair nor the phrase ends with a backtick; the phrase is one
\* argument when it holds no backtick, double quote or backslash and stands
\* apart from plain words around it
C14_BacktickPairsAsQuotesPlain ==
  Enclosed
    => /\ (~EndsWithBacktick(tin.before) /\ ~EndsWithBacktick(tin.phrase))
            => tout.bt = tout.dq
       /\ (PlainText(tin.phrase) /\ SetApart(tin.before, tin.after))
            => tout.bt = [ok |-> TRUE,
                          argv |-> Split(tin.before) \o <<tin.phrase>>
                                     \o Split(tin.after)]

C14_Witness ==
  /\ Enclosed
  /\ tin.before = <<"x", " ">> /\ tin.phrase = <<"x", " ">>
  /\ tin.after = <<" ", "x">>
  /\ tout.bt = tout.dq
  /\ tout.bt.argv = << <<"x">>, <<"x", " ">>, <<"x">> >>

\* C15: the cron loop and the stream listener hand the parser the same
\* argument vector for every command text
C15_SameTokenizer ==
  (tin.op = "text" /\ tout # NoProbe) => tout.cron = tout.stream

\* C19: every sleep of the cron loop is bounded, whatever time until due the
\* cron book returns, zero and negative included: the sleep before a
\* dispatch is shorter than 30 seconds and the sleep of an iteration without
\* a dispatch is 20 seconds
C19_SleepsBounded ==
  InCron
    => /\ slept < NearTermSeconds
       /\ pc = "respond" => slept * TicksPerSec <= now
       /\ (pc = "poll" /\ polls > 0 /\ ~resp.called)
            => slept = CoarseSleepSeconds

====
